---- MODULE Spec2Model ----
(***************************************************************************)
(* DevConductor: the task dependency graph and scheduling engine of        *)
(* src/main.py (class DevelopmentOrchestrator and its FastAPI endpoints).  *)
(*                                                                         *)
(* Modelling conventions                                                   *)
(*  - A Python dict is an insertion-ordered mapping: the Task Store and    *)
(*    the Workflow Store are sequences of records with pairwise distinct   *)
(*    ids, in insertion order.                                             *)
(*  - str(uuid.uuid4()) is a generator of fresh ids: the k-th id generated *)
(*    is the number k.  No property below compares ids by magnitude.       *)
(*  - datetime.now() reads the variable clock; isoformat() turns a reading *)
(*    into a string, modelled as a sequence of numbers that is compared    *)
(*    lexicographically, as Python compares strings.                       *)
(*  - None is "None" for Optional[str], <<"None">> for an optional list,   *)
(*    the empty sequence for an optional timestamp or dict, NoId for an    *)
(*    absent id and NoDuration for an absent Optional[int].                *)
(*  - Every handler is an `async def` without an await on anything that    *)
(*    suspends, served by one event loop: a handler runs to completion     *)
(*    before the next starts, so each handler is one atomic action and     *)
(*    concurrent requests are served in some order.                        *)
(***************************************************************************)
EXTENDS Integers, Sequences, FiniteSets, TLC

VARIABLES
    tasks,      \* orchestrator.tasks     (main.py:105)
    workflows,  \* orchestrator.workflows (main.py:106)
    uuids,      \* how many uuid4() values have been generated
    clock,      \* the last reading of datetime.now()
    response,   \* the last request served and the response to it
    budget,     \* how many more state-changing requests the model serves
    inflight,   \* complete_task requests received and not yet served
    replies,    \* the responses to the requests of inflight served so far
    running     \* the complete_task handler the event loop is executing

vars == <<tasks, workflows, uuids, clock, response, budget, inflight, replies,
          running>>

----------------------------------------------------------------------------
(* Bounds of the model *)

\* create_workflow is offered while fewer workflows than this are stored
MaxWorkflows == 2
\* state-changing requests served in a behaviour of Spec
MaxServed == 2
\* state-changing requests served in a behaviour of SpecChain
MaxChainServed == 1
\* clock readings per second: a reading on a whole second prints no fraction
TicksPerSecond == 2
\* tasks of a Task Store drawn at will (specification SpecStore)
MaxStoreTasks == 2
\* latest created_at reading of a task drawn at will
MaxStamp == 1
\* complete_task requests in flight at once (specification SpecRace)
MaxInflight == 2
\* complete_task requests served in a behaviour of SpecSteps
MaxStepServed == 1
\* chain tasks completed before a behaviour of SpecOrphan starts
MaxOrphanPrefix == 1
\* complete_task requests served in a behaviour of SpecOrphan
MaxOrphanServed == 1
\* workflows created in a behaviour of SpecCaller
MaxCallerWorkflows == 1

----------------------------------------------------------------------------
(* Values *)

None == "None"
NoId == 0
NoTime == <<>>
NoDuration == -1
EmptyDict == <<>>
NoneDict == <<>>
NoneList == <<"None">>

Range(s) == {s[i] : i \in 1..Len(s)}

\* datetime.isoformat(): "....:SS" when microsecond is 0, else "....:SS.ffffff"
Isoformat(t) ==
    IF t % TicksPerSecond = 0
    THEN <<t \div TicksPerSecond>>
    ELSE <<t \div TicksPerSecond, t % TicksPerSecond>>

\* Python's < on str: lexicographic, a proper prefix is smaller
RECURSIVE StrLess(_, _)
StrLess(a, b) ==
    IF b = <<>> THEN FALSE
    ELSE IF a = <<>> THEN TRUE
    ELSE IF Head(a) # Head(b) THEN Head(a) < Head(b)
    ELSE StrLess(Tail(a), Tail(b))

\* the module is imported, and class Task defined, before any request
ImportTime == 0

\* Task.created_at default: datetime.now().isoformat() evaluated once, when
\* the class body is executed
DefaultCreatedAt == Isoformat(ImportTime)

\* dataclass Task with its defaults and __post_init__
Task(id, description, agent, status, dependencies) ==
    [id |-> id,
     description |-> description,
     agent |-> agent,
     status |-> status,
     dependencies |-> dependencies,
     priority |-> "medium",
     output |-> None,
     artifacts |-> <<>>,
     metadata |-> EmptyDict,
     created_at |-> DefaultCreatedAt,
     started_at |-> None,
     completed_at |-> NoTime,
     estimated_duration |-> NoDuration]

----------------------------------------------------------------------------
(* dict operations *)

\* key in d
HasKey(d, k) == \E i \in 1..Len(d) : d[i].id = k

\* d[k], for a key that is present
Get(d, k) == d[CHOOSE i \in 1..Len(d) : d[i].id = k]

\* d.get(k, default)
GetOr(d, k, default) == IF HasKey(d, k) THEN Get(d, k) ELSE default

\* d[k] = v: a present key keeps its position, a new key is appended
DictSet(d, k, v) ==
    IF HasKey(d, k)
    THEN [i \in 1..Len(d) |-> IF d[i].id = k THEN v ELSE d[i]]
    ELSE Append(d, v)

Keys(d) == {d[i].id : i \in 1..Len(d)}

----------------------------------------------------------------------------
(* Catalogs *)

workflow_templates ==
    [t \in {"new-feature", "mvp-development", "bug-fix",
            "performance-optimization", "security-audit", "refactoring"} |->
        CASE t = "new-feature" ->
                <<"product-manager", "architect", "security", "frontend-dev",
                  "backend-dev", "qa", "devops">>
          [] t = "mvp-development" ->
                <<"product-manager", "architect", "security", "backend-dev",
                  "frontend-dev", "devops", "qa">>
          [] t = "bug-fix" ->
                <<"qa", "backend-dev", "frontend-dev", "security", "qa",
                  "devops">>
          [] t = "performance-optimization" ->
                <<"architect", "backend-dev", "frontend-dev", "devops", "qa">>
          [] t = "security-audit" ->
                <<"security", "architect", "backend-dev", "devops", "qa">>
          [] t = "refactoring" ->
                <<"architect", "backend-dev", "frontend-dev", "qa", "devops">>]

base_durations(agent) ==
    CASE agent = "product-manager" -> 30
      [] agent = "architect" -> 45
      [] agent = "frontend-dev" -> 60
      [] agent = "backend-dev" -> 60
      [] agent = "qa" -> 40
      [] agent = "devops" -> 35
      [] agent = "security" -> 50
      [] OTHER -> 30

\* the multipliers 1.0, 1.5, 0.7, 1.2, 1.8, 1.1, in tenths
complexity_multipliers(workflow_type) ==
    CASE workflow_type = "new-feature" -> 10
      [] workflow_type = "mvp-development" -> 15
      [] workflow_type = "bug-fix" -> 7
      [] workflow_type = "performance-optimization" -> 12
      [] workflow_type = "security-audit" -> 18
      [] workflow_type = "refactoring" -> 11
      [] OTHER -> 10

\* int(base * multiplier)
estimate_task_duration(agent, workflow_type) ==
    (base_durations(agent) * complexity_multipliers(workflow_type)) \div 10

----------------------------------------------------------------------------
(* Scheduler: DevelopmentOrchestrator.get_next_tasks *)

\* priority_order.get(t.priority, 1)
priority_rank(priority) ==
    CASE priority = "high" -> 0
      [] priority = "medium" -> 1
      [] priority = "low" -> 2
      [] OTHER -> 1

\* the sort key (priority_order.get(t.priority, 1), t.created_at), compared
\* as Python compares tuples
KeyLess(a, b) ==
    \/ priority_rank(a.priority) < priority_rank(b.priority)
    \/ /\ priority_rank(a.priority) = priority_rank(b.priority)
       /\ StrLess(a.created_at, b.created_at)

\* InsertSorted as an unstable sort would place x: before its equals
RECURSIVE InsertSorted_BeforeEquals(_, _)
InsertSorted_BeforeEquals(x, s) ==
    IF s = <<>> THEN <<x>>
    ELSE IF ~KeyLess(Head(s), x) THEN <<x>> \o s
    ELSE <<Head(s)>> \o InsertSorted_BeforeEquals(x, Tail(s))

\* x put into the sorted list s behind every element that is not greater
RECURSIVE InsertSorted(_, _)
InsertSorted(x, s) ==
    IF s = <<>> THEN <<x>>
    ELSE IF KeyLess(x, Head(s)) THEN <<x>> \o s
    ELSE <<Head(s)>> \o InsertSorted(x, Tail(s))

\* list.sort(key=...): a stable sort
RECURSIVE SortByKey(_)
SortByKey(s) ==
    IF s = <<>> THEN <<>>
    ELSE InsertSorted(s[Len(s)], SortByKey(SubSeq(s, 1, Len(s) - 1)))

\* deps_completed without the dependency check
deps_completed_Unchecked(ts, task) == TRUE

\* deps_completed with a stand-in for an absent dependency whose status is
\* "completed"
deps_completed_AbsentIsCompleted(ts, task) ==
    \A dep_id \in Range(task.dependencies) :
        GetOr(ts, dep_id, [Task(NoId, "", "", "", <<>>) EXCEPT !.status = "completed"]).status
            = "completed"

\* deps_completed with any() in the place of all()
deps_completed_Any(ts, task) ==
    \E dep_id \in Range(task.dependencies) :
        GetOr(ts, dep_id, Task(NoId, "", "", "", "completed")).status = "completed"

\* all(self.tasks.get(dep_id, Task("", "", "", "", "completed")).status
\*     == "completed" for dep_id in task.dependencies)
deps_completed(ts, task) ==
    \A dep_id \in Range(task.dependencies) :
        GetOr(ts, dep_id, Task(NoId, "", "", "", "completed")).status = "completed"

\* ready_tasks without the test `task.status != "pending"`
ready_tasks_AnyStatus(ts) ==
    SelectSeq(ts, LAMBDA task : deps_completed(ts, task))

\* the loop over self.tasks.values() that collects ready_tasks
ready_tasks(ts) ==
    SelectSeq(ts, LAMBDA task : task.status = "pending" /\ deps_completed(ts, task))

get_next_tasks(ts) == SortByKey(ready_tasks(ts))

----------------------------------------------------------------------------
(* Progress Aggregator: DevelopmentOrchestrator._calculate_workflow_progress *)

\* CountCompleted with the first member left out of the count
CountCompleted_SkipFirst(ts, task_ids) ==
    Cardinality({j \in 2..Len(task_ids) :
        GetOr(ts, task_ids[j], Task(NoId, "", "", "", "")).status = "completed"})

RECURSIVE CountCompleted(_, _)
CountCompleted(ts, task_ids) ==
    IF task_ids = <<>> THEN 0
    ELSE (IF GetOr(ts, Head(task_ids), Task(NoId, "", "", "", "")).status = "completed"
          THEN 1 ELSE 0)
         + CountCompleted(ts, Tail(task_ids))

\* Percentage without the division by total_tasks
Percentage_Undivided(completed_tasks, total_tasks) ==
    [num |-> completed_tasks * 100, den |-> 1]

\* completed_tasks / total_tasks * 100 is a float; it is kept as the exact
\* fraction num/den (den = 1 for the literal 0 of the empty workflow)
Percentage(completed_tasks, total_tasks) ==
    IF total_tasks > 0
    THEN [num |-> completed_tasks * 100, den |-> total_tasks]
    ELSE [num |-> 0, den |-> 1]

\* calculate_workflow_progress that reports an error for a workflow id it
\* does not find
calculate_workflow_progress_ErrorOnUnknown(ts, wfs, workflow_id) ==
    IF workflow_id = NoId \/ ~HasKey(wfs, workflow_id)
    THEN [error |-> "KeyError"]
    ELSE LET task_ids == Get(wfs, workflow_id).task_ids
             total_tasks == Len(task_ids)
             completed_tasks == CountCompleted(ts, task_ids)
         IN  [workflow_id |-> workflow_id,
              total_tasks |-> total_tasks,
              completed_tasks |-> completed_tasks,
              progress_percentage |-> Percentage(completed_tasks, total_tasks)]

calculate_workflow_progress(ts, wfs, workflow_id) ==
    IF workflow_id = NoId \/ ~HasKey(wfs, workflow_id)
    THEN EmptyDict
    ELSE LET task_ids == Get(wfs, workflow_id).task_ids
             total_tasks == Len(task_ids)
             completed_tasks == CountCompleted(ts, task_ids)
         IN  [workflow_id |-> workflow_id,
              total_tasks |-> total_tasks,
              completed_tasks |-> completed_tasks,
              progress_percentage |-> Percentage(completed_tasks, total_tasks)]

----------------------------------------------------------------------------
(* The orchestrator's state and the handlers as functions of it: a handler *)
(* takes st = [tasks, workflows, uuids, clock] and yields the new state    *)
(* together with its response.                                             *)

State(ts, wfs, n, t) == [tasks |-> ts, workflows |-> wfs, uuids |-> n, clock |-> t]

Reply(st, resp) ==
    [tasks |-> st.tasks, workflows |-> st.workflows, uuids |-> st.uuids,
     clock |-> st.clock, response |-> resp]

----------------------------------------------------------------------------
(* DevelopmentOrchestrator.create_workflow *)

\* project_context or {}
ContextOrEmpty(project_context) ==
    IF project_context \in {"None", "{}"} THEN "{}" ELSE project_context

\* Dependencies naming every earlier task instead of the last one
Dependencies_AllEarlier(i, task_ids) ==
    IF i > 1 THEN task_ids ELSE <<>>

\* dependencies = [task_ids[-1]] if i > 0 else [], at the 1-based position i
Dependencies(i, task_ids) ==
    IF i > 1 THEN <<task_ids[Len(task_ids)]>> ELSE <<>>

\* NewTask whose task, after the first, depends on itself
NewTask_DependsOnSelf(task_id, i, agent, task_ids, workflow_id, req) ==
    [Task(task_id, <<agent, req.description>>, agent, "pending",
          IF i > 1 THEN <<task_id>> ELSE <<>>)
        EXCEPT !.estimated_duration =
                   estimate_task_duration(agent, req.workflow_type),
               !.metadata = [workflow_id |-> workflow_id,
                             workflow_type |-> req.workflow_type,
                             project_context |-> ContextOrEmpty(req.project_context)]]

\* the Task built at position i of the template
NewTask(task_id, i, agent, task_ids, workflow_id, req) ==
    [Task(task_id, <<agent, req.description>>, agent, "pending",
          Dependencies(i, task_ids))
        EXCEPT !.estimated_duration =
                   estimate_task_duration(agent, req.workflow_type),
               !.metadata = [workflow_id |-> workflow_id,
                             workflow_type |-> req.workflow_type,
                             project_context |-> ContextOrEmpty(req.project_context)]]

\* CreateTasks that collects the id of the last task without storing the task
RECURSIVE CreateTasks_LastNotStored(_, _, _, _, _)
CreateTasks_LastNotStored(acc, i, workflow, workflow_id, req) ==
    IF i > Len(workflow) THEN acc
    ELSE LET task_id == workflow_id + i
             task == NewTask(task_id, i, workflow[i], acc.task_ids, workflow_id, req)
         IN  CreateTasks_LastNotStored(
                 [tasks |-> IF i = Len(workflow) THEN acc.tasks
                            ELSE DictSet(acc.tasks, task_id, task),
                  task_ids |-> Append(acc.task_ids, task_id)],
                 i + 1, workflow, workflow_id, req)

\* the loop `for i, agent in enumerate(workflow)` from position i on:
\* acc = [tasks |-> the Task Store, task_ids |-> the ids collected]; the
\* task at position i gets the uuid generated after workflow_id and the
\* ids of the tasks before it
RECURSIVE CreateTasks(_, _, _, _, _)
CreateTasks(acc, i, workflow, workflow_id, req) ==
    IF i > Len(workflow) THEN acc
    ELSE LET task_id == workflow_id + i
             task == NewTask(task_id, i, workflow[i], acc.task_ids, workflow_id, req)
         IN  CreateTasks([tasks |-> DictSet(acc.tasks, task_id, task),
                          task_ids |-> Append(acc.task_ids, task_id)],
                         i + 1, workflow, workflow_id, req)

\* the workflow metadata stored in self.workflows
NewWorkflow(workflow_id, task_ids, now, req) ==
    [id |-> workflow_id,
     type |-> req.workflow_type,
     description |-> req.description,
     task_ids |-> task_ids,
     created_at |-> Isoformat(now),
     status |-> "active",
     project_context |-> ContextOrEmpty(req.project_context)]

\* NextTask that takes the last element of the list
NextTask_Last(ts) ==
    IF get_next_tasks(ts) # <<>>
    THEN get_next_tasks(ts)[Len(get_next_tasks(ts))] ELSE NoneDict

\* asdict(self.get_next_tasks()[0]) if self.get_next_tasks() else None
NextTask(ts) ==
    IF get_next_tasks(ts) # <<>> THEN get_next_tasks(ts)[1] ELSE NoneDict

\* create_workflow that looks the type up only after it has stored a task
create_workflow_LateCheck(st, workflow_type, description, project_context) ==
    LET req == [workflow_type |-> workflow_type, description |-> description,
                project_context |-> project_context]
        workflow_id == st.uuids + 1
        task_id == workflow_id + 1
        first == NewTask(task_id, 1, "qa", <<>>, workflow_id, req)
    IN  IF workflow_type \notin DOMAIN workflow_templates
        THEN Reply(State(DictSet(st.tasks, task_id, first), st.workflows,
                         st.uuids + 2, st.clock + 1),
                   [op |-> "create_workflow", request |-> req, code |-> 400,
                    detail |-> <<"Unknown workflow type", workflow_type>>])
        ELSE LET workflow == workflow_templates[workflow_type]
                 acc == CreateTasks([tasks |-> st.tasks, task_ids |-> <<>>], 1,
                                    workflow, workflow_id, req)
                 now == st.clock + 1
                 wfs == DictSet(st.workflows, workflow_id,
                                NewWorkflow(workflow_id, acc.task_ids, now, req))
             IN  Reply(State(acc.tasks, wfs, st.uuids + 1 + Len(workflow), now),
                       [op |-> "create_workflow", request |-> req, code |-> 200,
                        workflow_id |-> workflow_id,
                        task_ids |-> acc.task_ids,
                        next_task |-> NextTask(acc.tasks)])

create_workflow(st, workflow_type, description, project_context) ==
    LET req == [workflow_type |-> workflow_type, description |-> description,
                project_context |-> project_context]
    IN  IF workflow_type \notin DOMAIN workflow_templates
        THEN Reply(st, [op |-> "create_workflow", request |-> req, code |-> 400,
                        detail |-> <<"Unknown workflow type", workflow_type>>])
        ELSE LET workflow_id == st.uuids + 1
                 workflow == workflow_templates[workflow_type]
                 acc == CreateTasks([tasks |-> st.tasks, task_ids |-> <<>>], 1,
                                    workflow, workflow_id, req)
                 now == st.clock + 1
                 wfs == DictSet(st.workflows, workflow_id,
                                NewWorkflow(workflow_id, acc.task_ids, now, req))
             IN  Reply(State(acc.tasks, wfs, st.uuids + 1 + Len(workflow), now),
                       [op |-> "create_workflow", request |-> req, code |-> 200,
                        workflow_id |-> workflow_id,
                        task_ids |-> acc.task_ids,
                        next_task |-> NextTask(acc.tasks)])

----------------------------------------------------------------------------
(* DevelopmentOrchestrator.complete_task *)

\* artifacts or []
ArtifactsOrEmpty(artifacts) == IF artifacts = NoneList THEN <<>> ELSE artifacts

\* CompletedTask that reopens a task that was already completed
CompletedTask_Toggle(task, output, artifacts, now) ==
    [task EXCEPT !.status = IF task.status = "completed" THEN "pending"
                            ELSE "completed",
                 !.output = output,
                 !.completed_at = Isoformat(now),
                 !.artifacts = ArtifactsOrEmpty(artifacts)]

\* CompletedTask that also clears the dependencies of the task
CompletedTask_ClearsDependencies(task, output, artifacts, now) ==
    [task EXCEPT !.status = "completed",
                 !.output = output,
                 !.completed_at = Isoformat(now),
                 !.artifacts = ArtifactsOrEmpty(artifacts),
                 !.dependencies = <<>>]

\* CompletedTask without the assignment to status
CompletedTask_StatusUnset(task, output, artifacts, now) ==
    [task EXCEPT !.output = output,
                 !.completed_at = Isoformat(now),
                 !.artifacts = ArtifactsOrEmpty(artifacts)]

\* the four assignments to the fields of self.tasks[task_id]
CompletedTask(task, output, artifacts, now) ==
    [task EXCEPT !.status = "completed",
                 !.output = output,
                 !.completed_at = Isoformat(now),
                 !.artifacts = ArtifactsOrEmpty(artifacts)]

\* task.metadata.get("workflow_id")
MetadataWorkflowId(task) ==
    IF "workflow_id" \in DOMAIN task.metadata THEN task.metadata.workflow_id ELSE NoId

\* complete_task that stores a completed task under an id it does not find,
\* before it answers 404
complete_task_StoresMissing(st, task_id, output, artifacts) ==
    LET req == [task_id |-> task_id, output |-> output, artifacts |-> artifacts]
        now == st.clock + 1
        task == CompletedTask(GetOr(st.tasks, task_id, Task(task_id, "", "", "pending", <<>>)),
                              output, artifacts, now)
        ts == DictSet(st.tasks, task_id, task)
    IN  IF ~HasKey(st.tasks, task_id)
        THEN Reply(State(ts, st.workflows, st.uuids, now),
                   [op |-> "complete_task", request |-> req, code |-> 404,
                    detail |-> "Task not found"])
        ELSE Reply(State(ts, st.workflows, st.uuids, now),
                   [op |-> "complete_task", request |-> req, code |-> 200,
                    task_completed |-> TRUE,
                    completed_task |-> task,
                    next_tasks |-> get_next_tasks(ts),
                    workflow_progress |->
                        calculate_workflow_progress(
                            ts, st.workflows, MetadataWorkflowId(task))])

complete_task(st, task_id, output, artifacts) ==
    LET req == [task_id |-> task_id, output |-> output, artifacts |-> artifacts]
    IN  IF ~HasKey(st.tasks, task_id)
        THEN Reply(st, [op |-> "complete_task", request |-> req, code |-> 404,
                        detail |-> "Task not found"])
        ELSE LET now == st.clock + 1
                 task == CompletedTask(Get(st.tasks, task_id), output, artifacts, now)
                 ts == DictSet(st.tasks, task_id, task)
             IN  Reply(State(ts, st.workflows, st.uuids, now),
                       [op |-> "complete_task", request |-> req, code |-> 200,
                        task_completed |-> TRUE,
                        completed_task |-> task,
                        next_tasks |-> get_next_tasks(ts),
                        workflow_progress |->
                            calculate_workflow_progress(
                                ts, st.workflows, MetadataWorkflowId(task))])

----------------------------------------------------------------------------
(* Read-only endpoints *)

\* get_next_tasks_endpoint that hands the tasks out: it marks each task it
\* returns as in_progress
get_next_tasks_endpoint_Dispatching(st) ==
    Reply(State([i \in 1..Len(st.tasks) |->
                    IF st.tasks[i] \in Range(get_next_tasks(st.tasks))
                    THEN [st.tasks[i] EXCEPT !.status = "in_progress"]
                    ELSE st.tasks[i]],
                st.workflows, st.uuids, st.clock),
          [op |-> "get_next_tasks", request |-> EmptyDict, code |-> 200,
           tasks |-> get_next_tasks(st.tasks)])

\* GET /tasks/next
get_next_tasks_endpoint(st) ==
    Reply(st, [op |-> "get_next_tasks", request |-> EmptyDict, code |-> 200,
               tasks |-> get_next_tasks(st.tasks)])

\* GET /workflows/{workflow_id}; orchestrator.tasks[task_id] of a member id
\* that is not in the Task Store raises KeyError (a 500 response)
get_workflow(st, workflow_id) ==
    LET req == [workflow_id |-> workflow_id]
    IN  IF ~HasKey(st.workflows, workflow_id)
        THEN Reply(st, [op |-> "get_workflow", request |-> req, code |-> 404,
                        detail |-> "Workflow not found"])
        ELSE LET workflow == Get(st.workflows, workflow_id)
             IN  IF \E i \in 1..Len(workflow.task_ids) :
                        ~HasKey(st.tasks, workflow.task_ids[i])
                 THEN Reply(st, [op |-> "get_workflow", request |-> req,
                                 code |-> 500, detail |-> "KeyError"])
                 ELSE Reply(st, [op |-> "get_workflow", request |-> req,
                                 code |-> 200,
                                 workflow |-> workflow,
                                 tasks |-> [i \in 1..Len(workflow.task_ids) |->
                                               Get(st.tasks, workflow.task_ids[i])],
                                 progress |-> calculate_workflow_progress(
                                                 st.tasks, st.workflows, workflow_id)])

\* GET /tasks/{task_id}
get_task(st, task_id) ==
    LET req == [task_id |-> task_id]
    IN  IF ~HasKey(st.tasks, task_id)
        THEN Reply(st, [op |-> "get_task", request |-> req, code |-> 404,
                        detail |-> "Task not found"])
        ELSE Reply(st, [op |-> "get_task", request |-> req, code |-> 200,
                        task |-> Get(st.tasks, task_id)])

----------------------------------------------------------------------------
(* The requests drawn *)

WorkflowTypes == {"bug-fix", "refactoring", "nonexistent-type"}
Descriptions == {"Login fails on mobile"}
ProjectContexts == {"None"}
\* (output, artifacts) of a completion request
Completions == {[output |-> "fixed", artifacts |-> NoneList],
                [output |-> "patched", artifacts |-> <<"patch.diff">>]}
\* an id that names no task and no workflow
UnknownId == NoId

----------------------------------------------------------------------------
(* Actions: one request served, start to end *)

Current == State(tasks, workflows, uuids, clock)

\* no handler is being executed: the value of running between two requests
Idle == [line |-> 0, request |-> EmptyDict, atomic |-> EmptyDict]

\* the handler's result r becomes the state; a request that changes the
\* stores is served only within the budget
Serve(r) ==
    /\ (r.tasks # tasks \/ r.workflows # workflows \/ r.clock # clock) => budget > 0
    /\ tasks' = r.tasks
    /\ workflows' = r.workflows
    /\ uuids' = r.uuids
    /\ clock' = r.clock
    /\ response' = r.response
    /\ budget' = IF r.clock # clock THEN budget - 1 ELSE budget

CreateWorkflow ==
    /\ \E workflow_type \in WorkflowTypes, description \in Descriptions,
          project_context \in ProjectContexts :
          /\ workflow_type \in DOMAIN workflow_templates
                => Len(workflows) < MaxWorkflows
          /\ Serve(create_workflow(Current, workflow_type, description,
                                   project_context))
    /\ UNCHANGED <<inflight, replies, running>>

CompleteTask ==
    /\ \E task_id \in Keys(tasks) \cup {UnknownId}, c \in Completions :
          Serve(complete_task(Current, task_id, c.output, c.artifacts))
    /\ UNCHANGED <<inflight, replies, running>>

\* LoopIdle for a server that starts a handler while another is suspended
\* between two of its statements
LoopIdle_Always == TRUE

\* the endpoints are `async def`: the event loop starts a handler only when
\* it executes no other
LoopIdle == running.line = 0

\* GET /tasks/{task_id}: the reader of SpecSteps and SpecOrphan
GetTask ==
    /\ LoopIdle
    /\ \E task_id \in Keys(tasks) \cup {UnknownId} :
          Serve(get_task(Current, task_id))
    /\ UNCHANGED <<inflight, replies, running>>

GetNextTasks ==
    /\ Serve(get_next_tasks_endpoint(Current))
    /\ UNCHANGED <<inflight, replies, running>>

GetWorkflow ==
    /\ \E workflow_id \in Keys(workflows) \cup {UnknownId} :
          Serve(get_workflow(Current, workflow_id))
    /\ UNCHANGED <<inflight, replies, running>>

NoResponse == [op |-> "none", request |-> EmptyDict, code |-> 0]

\* the state after DevelopmentOrchestrator.__init__
Constructed == State(<<>>, <<>>, 0, ImportTime)

Init ==
    /\ tasks = Constructed.tasks
    /\ workflows = Constructed.workflows
    /\ uuids = Constructed.uuids
    /\ clock = Constructed.clock
    /\ response = NoResponse
    /\ budget = MaxServed
    /\ inflight = {}
    /\ replies = <<>>
    /\ running = Idle

Next ==
    \/ CreateWorkflow
    \/ CompleteTask
    \/ GetNextTasks
    \/ GetWorkflow

Spec == Init /\ [][Next]_vars

----------------------------------------------------------------------------
(* SpecChain: the requests of Spec, served from a state in which one       *)
(* workflow has been created and the first k tasks of its chain have been  *)
(* completed in order.                                                     *)

KnownTypes == WorkflowTypes \cap DOMAIN workflow_templates

Drop(r) == State(r.tasks, r.workflows, r.uuids, r.clock)

\* create_workflow(type), then complete_task on the chain positions 1..k
RECURSIVE AfterPrefix(_, _)
AfterPrefix(workflow_type, k) ==
    IF k = 0
    THEN create_workflow(Constructed, workflow_type,
                         CHOOSE d \in Descriptions : TRUE,
                         CHOOSE c \in ProjectContexts : TRUE)
    ELSE LET before == AfterPrefix(workflow_type, k - 1)
             c == CHOOSE x \in Completions : TRUE
         IN  complete_task(Drop(before), before.workflows[1].task_ids[k],
                           c.output, c.artifacts)

InitChain ==
    \E workflow_type \in KnownTypes :
        \E k \in 0..Len(workflow_templates[workflow_type]) :
            LET r == AfterPrefix(workflow_type, k)
            IN  /\ tasks = r.tasks
                /\ workflows = r.workflows
                /\ uuids = r.uuids
                /\ clock = r.clock
                /\ response = r.response
                /\ budget = MaxChainServed
                /\ inflight = {}
                /\ replies = <<>>
                /\ running = Idle

SpecChain == InitChain /\ [][Next]_vars

----------------------------------------------------------------------------
(* SpecStore: get_next_tasks applied to a Task Store drawn at will, as a   *)
(* caller of the class can fill orchestrator.tasks: any status, priority,  *)
(* created_at and dependencies, a dependency on an absent id included.     *)

MissingId == MaxStoreTasks + 1

StorePriorities == {"high", "medium", "low"}
StoreStamps == {Isoformat(t) : t \in 0..MaxStamp}
\* status and dependencies of a drawn task
StoreKinds == {"pending", "pending-on-missing", "pending-on-previous", "completed"}

StoreTask(id, kind, priority, created_at) ==
    [Task(id, "", "qa",
          IF kind = "completed" THEN "completed" ELSE "pending",
          CASE kind = "pending-on-missing" -> <<MissingId>>
            [] kind = "pending-on-previous" /\ id > 1 -> <<id - 1>>
            [] OTHER -> <<>>)
        EXCEPT !.priority = priority, !.created_at = created_at]

InitStore ==
    /\ \E n \in 1..MaxStoreTasks :
          \E f \in [1..n -> StoreKinds \X StorePriorities \X StoreStamps] :
              tasks = [i \in 1..n |-> StoreTask(i, f[i][1], f[i][2], f[i][3])]
    /\ workflows = <<>>
    /\ uuids = Len(tasks)
    /\ clock = MaxStamp
    /\ response = NoResponse
    /\ budget = 0
    /\ inflight = {}
    /\ replies = <<>>
    /\ running = Idle

NextStore == GetNextTasks

SpecStore == InitStore /\ [][NextStore]_vars

----------------------------------------------------------------------------
(* SpecRace: complete_task requests that are in flight together, after one *)
(* workflow has been created.  The event loop serves them one after the    *)
(* other, in any order.                                                    *)

ServeInflight ==
    \E r \in inflight :
        LET res == complete_task(Current, r.task_id, r.output, r.artifacts)
        IN  /\ Serve(res)
            /\ inflight' = inflight \ {r}
            /\ replies' = [rid \in DOMAIN replies \cup {r.rid} |->
                              IF rid = r.rid THEN res.response ELSE replies[rid]]
            /\ UNCHANGED running

InitRace ==
    \E workflow_type \in KnownTypes :
        LET r == AfterPrefix(workflow_type, 0)
        IN  /\ tasks = r.tasks
            /\ workflows = r.workflows
            /\ uuids = r.uuids
            /\ clock = r.clock
            /\ response = r.response
            /\ budget = MaxInflight
            /\ replies = <<>>
            /\ running = Idle
            /\ \E f \in [1..MaxInflight -> Keys(r.tasks) \X Completions] :
                  inflight = {[rid |-> rid, task_id |-> f[rid][1],
                               output |-> f[rid][2].output,
                               artifacts |-> f[rid][2].artifacts] :
                              rid \in 1..MaxInflight}

NextRace == ServeInflight

SpecRace == InitRace /\ [][NextRace]_vars

----------------------------------------------------------------------------
(* SpecSteps: complete_task executed statement by statement, with GET       *)
(* /tasks/{task_id} as the reader.  running.line is the line of main.py the *)
(* handler executes next; running.atomic records what complete_task, taken  *)
(* as one step, yields for the same request in the state the handler        *)
(* started in.                                                              *)

\* the assignment at main.py:527..530 applied to the task object
AssignLine(task, line, request, now) ==
    CASE line = 527 -> [task EXCEPT !.status = "completed"]
      [] line = 528 -> [task EXCEPT !.output = request.output]
      [] line = 529 -> [task EXCEPT !.completed_at = Isoformat(now)]
      [] line = 530 -> [task EXCEPT !.artifacts = ArtifactsOrEmpty(request.artifacts)]

\* lines 523-526: the handler starts, raises 404 or binds task
BeginComplete ==
    /\ LoopIdle
    /\ budget > 0
    /\ \E task_id \in Keys(tasks) \cup {UnknownId}, c \in Completions :
          LET atomic == complete_task(Current, task_id, c.output, c.artifacts)
          IN  IF ~HasKey(tasks, task_id)
              THEN /\ response' = atomic.response
                   /\ running' = [line |-> 0, request |-> atomic.response.request,
                                  atomic |-> atomic]
              ELSE /\ running' = [line |-> 527, request |-> atomic.response.request,
                                  atomic |-> atomic]
                   /\ UNCHANGED response
    /\ UNCHANGED <<tasks, workflows, uuids, clock, budget, inflight, replies>>

\* one of the lines 527-530
StepComplete ==
    /\ running.line \in 527..530
    /\ tasks' = DictSet(tasks, running.request.task_id,
                        AssignLine(Get(tasks, running.request.task_id),
                                   running.line, running.request, clock + 1))
    /\ clock' = IF running.line = 529 THEN clock + 1 ELSE clock
    /\ running' = [running EXCEPT !.line = IF @ = 530 THEN 535 ELSE @ + 1]
    /\ UNCHANGED <<workflows, uuids, response, budget, inflight, replies>>

\* lines 535-544: the response is built and the handler returns
FinishComplete ==
    /\ running.line = 535
    /\ response' =
          LET task == Get(tasks, running.request.task_id)
          IN  [op |-> "complete_task", request |-> running.request, code |-> 200,
               task_completed |-> TRUE,
               completed_task |-> task,
               next_tasks |-> get_next_tasks(tasks),
               workflow_progress |->
                   calculate_workflow_progress(tasks, workflows,
                                               MetadataWorkflowId(task))]
    /\ running' = [running EXCEPT !.line = 0]
    /\ budget' = budget - 1
    /\ UNCHANGED <<tasks, workflows, uuids, clock, inflight, replies>>

InitSteps ==
    \E workflow_type \in KnownTypes :
        \E k \in 0..Len(workflow_templates[workflow_type]) :
            LET r == AfterPrefix(workflow_type, k)
            IN  /\ tasks = r.tasks
                /\ workflows = r.workflows
                /\ uuids = r.uuids
                /\ clock = r.clock
                /\ response = r.response
                /\ budget = MaxStepServed
                /\ inflight = {}
                /\ replies = <<>>
                /\ running = Idle

NextSteps ==
    \/ BeginComplete
    \/ StepComplete
    \/ FinishComplete
    \/ GetTask

SpecSteps == InitSteps /\ [][NextSteps]_vars

----------------------------------------------------------------------------
(* SpecOrphan: complete_task and GET /tasks/{task_id} on a store that holds *)
(* one created workflow and, next to its tasks, one task put into           *)
(* orchestrator.tasks by a caller of the class: its metadata is the         *)
(* dataclass default {} or names a workflow that is not stored.             *)

\* the task a caller adds: the first uuid after those generated, pending,
\* with metadata {} or a workflow_id that is the next uuid and names nothing
OrphanTask(n, with_workflow_id) ==
    [Task(n + 1, "", "qa", "pending", <<>>)
        EXCEPT !.metadata = IF with_workflow_id
                            THEN [workflow_id |-> n + 2]
                            ELSE EmptyDict]

InitOrphan ==
    \E workflow_type \in KnownTypes, with_workflow_id \in BOOLEAN :
        \E k \in 0..MaxOrphanPrefix :
            LET r == AfterPrefix(workflow_type, k)
            IN  /\ tasks = Append(r.tasks, OrphanTask(r.uuids, with_workflow_id))
                /\ workflows = r.workflows
                /\ uuids = r.uuids + 2
                /\ clock = r.clock
                /\ response = r.response
                /\ budget = MaxOrphanServed
                /\ inflight = {}
                /\ replies = <<>>
                /\ running = Idle

NextOrphan ==
    \/ CompleteTask
    \/ GetTask

SpecOrphan == InitOrphan /\ [][NextOrphan]_vars

----------------------------------------------------------------------------
(* SpecCaller: create_workflow at most MaxCallerWorkflows times, callers  *)
(* that each send GET /tasks/next and then POST /tasks/{id}/complete for   *)
(* the first task of the list they were given.  The two requests are two   *)
(* steps: between them the event loop serves whatever else arrives, the    *)
(* other caller's requests included, so a caller may complete a task that  *)
(* has been completed since it asked.  inflight holds the completions the  *)
(* callers have yet to send.  The callers keep going: weak fairness on     *)
(* asking and on completing, WF_vars(AskNext) /\ WF_vars(CompleteFirst),   *)
(* stated with ENABLED <<A>>_vars written out as a state predicate.        *)

Callers == {"A", "B"}

\* POST /workflows as in CreateWorkflow, at most MaxCallerWorkflows times
\* with a known type
CreateCallerWorkflow ==
    /\ \E workflow_type \in WorkflowTypes, description \in Descriptions,
          project_context \in ProjectContexts :
          /\ workflow_type \in DOMAIN workflow_templates
                => Len(workflows) < MaxCallerWorkflows
          /\ Serve(create_workflow(Current, workflow_type, description,
                                   project_context))
    /\ UNCHANGED <<inflight, replies, running>>

\* the completion a caller sends
CallerCompletion == [output |-> "fixed", artifacts |-> NoneList]

\* the callers that have no completion to send
Waiting == Callers \ {r.rid : r \in inflight}

\* GET /tasks/next by a caller that has nothing to send: it keeps the id of
\* the first task of the list, if there is one
AskNext ==
    /\ \E c \in Waiting :
          LET res == get_next_tasks_endpoint(Current)
          IN  /\ Serve(res)
              /\ inflight' =
                    IF res.response.tasks = <<>>
                    THEN inflight
                    ELSE inflight \cup
                            {[rid |-> c, task_id |-> res.response.tasks[1].id,
                              output |-> CallerCompletion.output,
                              artifacts |-> CallerCompletion.artifacts]}
    /\ UNCHANGED <<replies, running>>

\* POST /tasks/{id}/complete by a caller, for the id it kept
CompleteFirst ==
    /\ \E r \in inflight :
          /\ Serve(complete_task(Current, r.task_id, r.output, r.artifacts))
          /\ inflight' = inflight \ {r}
    /\ UNCHANGED <<replies, running>>

\* the longest template among the types drawn
MaxChainLen ==
    CHOOSE n \in {Len(workflow_templates[t]) : t \in KnownTypes} :
        \A t \in KnownTypes : Len(workflow_templates[t]) <= n

\* requests enough to create MaxCallerWorkflows workflows and to let every
\* caller complete every task
CallerBudget == MaxCallerWorkflows * (1 + Cardinality(Callers) * MaxChainLen)

InitCaller ==
    /\ tasks = Constructed.tasks
    /\ workflows = Constructed.workflows
    /\ uuids = Constructed.uuids
    /\ clock = Constructed.clock
    /\ response = NoResponse
    /\ budget = CallerBudget
    /\ inflight = {}
    /\ replies = <<>>
    /\ running = Idle

NextCaller ==
    \/ CreateCallerWorkflow
    \/ AskNext
    \/ CompleteFirst

\* ENABLED <<AskNext>>_vars: a caller has nothing to send, and the reply
\* gives it a task or differs from the last response
CanAskNext ==
    /\ Waiting # {}
    /\ \/ get_next_tasks(tasks) # <<>>
       \/ get_next_tasks_endpoint(Current).response # response

\* ENABLED <<CompleteFirst>>_vars: a caller has a completion to send and the
\* request is within the budget (the step advances the clock)
CanCompleteFirst == inflight # {} /\ budget > 0

\* WF_vars(AskNext) /\ WF_vars(CompleteFirst)
FairCaller ==
    /\ []<>(~CanAskNext) \/ []<><<AskNext>>_vars
    /\ []<>(~CanCompleteFirst) \/ []<><<CompleteFirst>>_vars

SpecCaller == InitCaller /\ [][NextCaller]_vars /\ FairCaller

----------------------------------------------------------------------------
(* Properties *)

\* the ids of a list of tasks
IdsOf(list) == {list[j].id : j \in 1..Len(list)}

\* the ids of the tasks get_next_tasks returns
EligibleIds(ts) == IdsOf(get_next_tasks(ts))

\* every dependency of t names a task of ts whose status is completed
AllDependenciesCompleted(ts, t) ==
    \A d \in Range(t.dependencies) :
        \E j \in 1..Len(ts) : ts[j].id = d /\ ts[j].status = "completed"

IsOk(resp, op) == resp.op = op /\ resp.code = 200

\* C1: in every reachable state a task is returned by get_next_tasks only
\* if it is pending and each of its dependencies is a completed task (so a
\* task with a dependency that is not completed is left out), and a task
\* without dependencies is returned exactly when it is pending.
C1_EligibleOnlyWhenDependenciesCompleted ==
    \A i \in 1..Len(tasks) :
        LET t == tasks[i]
        IN  /\ t.id \in EligibleIds(tasks)
                => t.status = "pending" /\ AllDependenciesCompleted(tasks, t)
            /\ t.dependencies = <<>>
                => (t.id \in EligibleIds(tasks) <=> t.status = "pending")

\* C1 witness: a task with a dependency is returned (its dependency is
\* completed) while another pending task is held back by a pending
\* dependency.
C1_Witness ==
    /\ \E i \in 1..Len(tasks) :
          /\ tasks[i].dependencies # <<>>
          /\ tasks[i].id \in EligibleIds(tasks)
    /\ \E i \in 1..Len(tasks) :
          /\ tasks[i].status = "pending"
          /\ ~AllDependenciesCompleted(tasks, tasks[i])
          /\ tasks[i].id \notin EligibleIds(tasks)

\* C2: a complete_task request for a task that is already completed fails
\* and leaves that task as the first completion set it.
C2_SecondCompleteFails ==
    [][\A i \in 1..Len(tasks) :
          (/\ tasks[i].status = "completed"
           /\ response'.op = "complete_task"
           /\ response'.request.task_id = tasks[i].id)
          => (response'.code # 200 /\ tasks'[i] = tasks[i])]_vars

\* C3: a pending task with a dependency id that names no task of the Task
\* Store is never returned by get_next_tasks.
C3_MissingDependencyNeverEligible ==
    \A i \in 1..Len(tasks) :
        (/\ tasks[i].status = "pending"
         /\ \E d \in Range(tasks[i].dependencies) : d \notin Keys(tasks))
        => /\ tasks[i].id \notin EligibleIds(tasks)
           /\ (response.op = "get_next_tasks"
                 => \A j \in 1..Len(response.tasks) :
                        response.tasks[j].id # tasks[i].id)

\* C3 witness: GET /tasks/next has answered for a store that holds a
\* pending task whose only dependency is absent, and returned other tasks.
C3_Witness ==
    /\ response.op = "get_next_tasks"
    /\ response.tasks # <<>>
    /\ \E i \in 1..Len(tasks) :
          /\ tasks[i].status = "pending"
          /\ tasks[i].dependencies = <<MissingId>>
          /\ MissingId \notin Keys(tasks)

\* C4: of complete_task requests for the same task id that are in flight
\* together, exactly one succeeds and every other fails, and once all are
\* served the task carries the output and artifacts of the successful one.
C4_ExactlyOneCompletionSucceeds ==
    \A a \in DOMAIN replies : \A b \in DOMAIN replies \ {a} :
        replies[a].request.task_id = replies[b].request.task_id
        => /\ (replies[a].code = 200) # (replies[b].code = 200)
           /\ (inflight = {} /\ replies[a].code = 200)
                => LET t == Get(tasks, replies[a].request.task_id)
                   IN  /\ t.output = replies[a].request.output
                       /\ t.artifacts
                            = ArtifactsOrEmpty(replies[a].request.artifacts)

\* C5: in every state between two requests, every id in the task_ids of a
\* stored workflow is a key of the Task Store, and GET /workflows/{id}
\* never fails on a member that is not stored.
C5_WorkflowTasksPresent ==
    /\ \A w \in 1..Len(workflows) :
          \A i \in 1..Len(workflows[w].task_ids) :
              HasKey(tasks, workflows[w].task_ids[i])
    /\ response.op = "get_workflow" => response.code \in {200, 404}

\* C5 witness: a reader got a workflow with its tasks while two workflows
\* are stored.
C5_Witness ==
    /\ IsOk(response, "get_workflow")
    /\ Len(workflows) = 2
    /\ Len(response.tasks) = Len(response.workflow.task_ids)
    /\ response.tasks # <<>>

\* C6: a successful create_workflow appends exactly one task per agent of
\* the type's template (6 for bug-fix), in template order, all pending; the
\* first has no dependencies, each later one depends on exactly the id
\* before it in task_ids; of the new tasks only the first is eligible.
C6_CreateBuildsLinearChain ==
    [][IsOk(response', "create_workflow")
       => LET ids == response'.task_ids
              wtype == response'.request.workflow_type
              template == workflow_templates[wtype]
              n == Len(template)
              old == Len(tasks)
          IN  /\ Len(ids) = n
              /\ wtype = "bug-fix" => n = 6
              /\ Len(tasks') = old + n
              /\ SubSeq(tasks', 1, old) = tasks
              /\ \A i \in 1..n :
                    /\ tasks'[old + i].id = ids[i]
                    /\ tasks'[old + i].agent = template[i]
                    /\ tasks'[old + i].status = "pending"
                    /\ tasks'[old + i].dependencies
                         = IF i = 1 THEN <<>> ELSE <<ids[i - 1]>>
                    /\ ids[i] \notin Keys(tasks)
                    /\ \A j \in 1..n : ids[i] = ids[j] => i = j
              /\ EligibleIds(tasks') \cap Range(ids) = {ids[1]}
              /\ Get(workflows', response'.workflow_id).task_ids = ids]_vars

\* C6 witness: a bug-fix workflow has just been created next to an earlier
\* workflow.
C6_Witness ==
    /\ IsOk(response, "create_workflow")
    /\ response.request.workflow_type = "bug-fix"
    /\ Len(response.task_ids) = 6
    /\ Len(workflows) = 2

\* the members of the chain ids at positions 1..k are completed, the others
\* pending
PrefixCompleted(ts, ids, k) ==
    \A j \in 1..Len(ids) :
        Get(ts, ids[j]).status = IF j <= k THEN "completed" ELSE "pending"

\* C7: when the first i-1 tasks of a workflow's chain are completed and the
\* rest pending, completing the i-th makes exactly one task newly eligible,
\* the one after it (none after the last), and the response reports total =
\* chain length and completed = i.
C7_CompletionAdvancesChain ==
    [][\A w \in 1..Len(workflows) :
          LET ids == workflows[w].task_ids
          IN  \A i \in 1..Len(ids) :
                (/\ PrefixCompleted(tasks, ids, i - 1)
                 /\ IsOk(response', "complete_task")
                 /\ response'.request.task_id = ids[i])
                => /\ EligibleIds(tasks') \ EligibleIds(tasks)
                        = IF i < Len(ids) THEN {ids[i + 1]} ELSE {}
                   /\ {response'.next_tasks[j].id :
                           j \in 1..Len(response'.next_tasks)}
                        = EligibleIds(tasks')
                   /\ response'.workflow_progress.total_tasks = Len(ids)
                   /\ response'.workflow_progress.completed_tasks = i
                   /\ (workflows[w].type = "bug-fix" /\ i = 1)
                        => /\ response'.workflow_progress.total_tasks = 6
                           /\ response'.workflow_progress.completed_tasks = 1]_vars

\* C7 witness: the last task of a chain has just been completed after all
\* the others, and nothing is eligible any more.
C7_Witness ==
    /\ IsOk(response, "complete_task")
    /\ Len(workflows) = 1
    /\ budget = MaxChainServed - 1
    /\ response.request.task_id
         = workflows[1].task_ids[Len(workflows[1].task_ids)]
    /\ PrefixCompleted(tasks, workflows[1].task_ids, Len(workflows[1].task_ids))
    /\ response.next_tasks = <<>>
    /\ response.workflow_progress.completed_tasks = Len(workflows[1].task_ids)

\* C8: create_workflow with a type that is not in the catalog fails (400)
\* and leaves the Task Store and the Workflow Store as they were.
C8_UnknownTypeChangesNothing ==
    [][(/\ response'.op = "create_workflow"
        /\ response'.request.workflow_type \notin DOMAIN workflow_templates)
       => /\ response'.code = 400
          /\ tasks' = tasks
          /\ workflows' = workflows]_vars

\* C8 witness: an unknown type has been refused while both stores hold
\* entries.
C8_Witness ==
    /\ response.op = "create_workflow"
    /\ response.code = 400
    /\ response.request.workflow_type = "nonexistent-type"
    /\ tasks # <<>>
    /\ workflows # <<>>

\* the rank the specification gives a priority
SpecRank(priority) ==
    CASE priority = "high" -> 0 [] priority = "medium" -> 1 [] priority = "low" -> 2

\* the clock reading a created_at string stands for
StampTime(created_at) ==
    created_at[1] * TicksPerSecond + (IF Len(created_at) > 1 THEN created_at[2] ELSE 0)

\* the position of the task with this id in a list of tasks
PositionOf(list, id) == CHOOSE i \in 1..Len(list) : list[i].id = id

\* C9: the list get_next_tasks returns is in ascending order of
\* (priority rank, created_at) with high = 0, medium = 1, low = 2: a task of
\* strictly higher priority precedes one of lower priority whatever their
\* creation times, within a priority the earlier created_at comes first,
\* and tasks equal in both keep the insertion order of the Task Store.
C9_OrderedByPriorityThenCreation ==
    LET list == get_next_tasks(tasks)
    IN  \A i \in 1..Len(list) : \A j \in 1..Len(list) :
            LET a == list[i]
                b == list[j]
            IN  /\ SpecRank(a.priority) < SpecRank(b.priority) => i < j
                /\ (/\ SpecRank(a.priority) = SpecRank(b.priority)
                    /\ StampTime(a.created_at) < StampTime(b.created_at)) => i < j
                /\ (/\ SpecRank(a.priority) = SpecRank(b.priority)
                    /\ StampTime(a.created_at) = StampTime(b.created_at)
                    /\ PositionOf(tasks, a.id) < PositionOf(tasks, b.id)) => i < j

\* C9 witness: GET /tasks/next has returned a high-priority task ahead of
\* an earlier-created low-priority task that was inserted before it.
C9_Witness ==
    /\ IsOk(response, "get_next_tasks")
    /\ Len(response.tasks) = 2
    /\ response.tasks[1].priority = "high"
    /\ response.tasks[2].priority = "low"
    /\ StampTime(response.tasks[2].created_at) < StampTime(response.tasks[1].created_at)
    /\ PositionOf(tasks, response.tasks[2].id) < PositionOf(tasks, response.tasks[1].id)

\* a/b <= c/d for the fractions Percentage yields
FractionLeq(x, y) == x.num * y.den <= y.num * x.den

\* C10: for every stored workflow, the completed count and the percentage
\* the Progress Aggregator reports never decrease from one request to the
\* next, a repeated completion of the same task included.
C10_ProgressNeverDecreases ==
    [][\A w \in 1..Len(workflows) :
          LET before == calculate_workflow_progress(tasks, workflows, workflows[w].id)
              after == calculate_workflow_progress(tasks', workflows', workflows[w].id)
          IN  /\ before.completed_tasks <= after.completed_tasks
              /\ FractionLeq(before.progress_percentage, after.progress_percentage)
              /\ before.total_tasks = after.total_tasks]_vars

\* C10 witness: the chain had its first two tasks completed, then the first
\* one was completed again, and the workflow still reports 2 completed.
C10_Witness ==
    /\ IsOk(response, "complete_task")
    /\ Len(workflows) = 1
    /\ budget = MaxChainServed - 1
    /\ response.request.task_id = workflows[1].task_ids[1]
    /\ PrefixCompleted(tasks, workflows[1].task_ids, 2)
    /\ response.workflow_progress.completed_tasks = 2

\* the positions of ids whose task is in ts with status completed
CompletedMembers(ts, ids) ==
    {j \in 1..Len(ids) :
        \E i \in 1..Len(ts) : ts[i].id = ids[j] /\ ts[i].status = "completed"}

\* the fraction x is exactly 100
IsHundred(x) == x.num = 100 * x.den

\* C11: for every stored workflow the Progress Aggregator reports total =
\* the number of ids in task_ids and completed = the number of member tasks
\* whose status is completed; the percentage is exactly 100 if and only if
\* every member is completed, and 0 when total is 0.  The progress a
\* get_workflow or complete_task response carries is that report.
C11_ProgressCountsMembers ==
    /\ \A w \in 1..Len(workflows) :
          LET ids == workflows[w].task_ids
              p == calculate_workflow_progress(tasks, workflows, workflows[w].id)
          IN  /\ p.total_tasks = Len(ids)
              /\ p.completed_tasks = Cardinality(CompletedMembers(tasks, ids))
              /\ IsHundred(p.progress_percentage)
                    <=> (Len(ids) > 0 /\ CompletedMembers(tasks, ids) = 1..Len(ids))
              /\ Len(ids) = 0 => p.progress_percentage.num = 0
              /\ (IsOk(response, "get_workflow")
                    /\ response.request.workflow_id = workflows[w].id)
                    => response.progress = p
              /\ (IsOk(response, "complete_task")
                    /\ response.request.task_id \in Range(ids))
                    => response.workflow_progress = p
    /\ Percentage(0, 0).num = 0

\* C11 witness: a reader got a workflow all of whose tasks are completed,
\* with 100 percent.
C11_Witness ==
    /\ IsOk(response, "get_workflow")
    /\ response.progress.completed_tasks = response.progress.total_tasks
    /\ response.progress.total_tasks = Len(response.tasks)
    /\ IsHundred(response.progress.progress_percentage)
    /\ \A j \in 1..Len(response.tasks) : response.tasks[j].status = "completed"

\* the status a workflow has by the states of its member tasks
DerivedStatus(ts, ids) ==
    IF CompletedMembers(ts, ids) = 1..Len(ids) THEN "completed" ELSE "active"

\* C12: the status of a stored workflow, and the status a get_workflow
\* response shows for it, is completed if and only if every member task is
\* completed, and active otherwise.
C12_WorkflowStatusFollowsTasks ==
    \A w \in 1..Len(workflows) :
        /\ workflows[w].status = DerivedStatus(tasks, workflows[w].task_ids)
        /\ (IsOk(response, "get_workflow")
              /\ response.request.workflow_id = workflows[w].id)
              => response.workflow.status
                   = DerivedStatus(tasks, workflows[w].task_ids)

\* C13: a task whose status is completed is still stored and completed
\* after any request, is not among the tasks get_next_tasks returns in the
\* new state, and is not in the list a complete_task or GET /tasks/next
\* response carries.
C13_CompletedStaysCompleted ==
    [][LET eligible == EligibleIds(tasks')
           completed == {tasks[i].id : i \in {j \in 1..Len(tasks) :
                                                tasks[j].status = "completed"}}
       IN  /\ \A i \in 1..Len(tasks) :
                 tasks[i].status = "completed"
                 => /\ i <= Len(tasks')
                    /\ tasks'[i].id = tasks[i].id
                    /\ tasks'[i].status = "completed"
           /\ completed \cap eligible = {}
           /\ IsOk(response', "complete_task")
                 => completed \cap IdsOf(response'.next_tasks) = {}
           /\ IsOk(response', "get_next_tasks")
                 => completed \cap IdsOf(response'.tasks) = {}]_vars

\* C13 witness: a completed task was completed a second time, and GET
\* /tasks/next then returned tasks, that one not among them.
C13_Witness ==
    /\ IsOk(response, "get_next_tasks")
    /\ response.tasks # <<>>
    /\ budget = MaxChainServed - 1
    /\ tasks[1].status = "completed"
    /\ tasks[1].output = "patched"
    /\ tasks[2].status = "completed"
    /\ tasks[2].output = "fixed"
    /\ tasks[1].id \notin IdsOf(response.tasks)

\* C14: complete_task with a task id that is not in the Task Store answers
\* 404 "Task not found" and leaves the Task Store and the Workflow Store
\* unchanged.
C14_UnknownTaskChangesNothing ==
    [][(/\ response'.op = "complete_task"
        /\ response'.request.task_id \notin Keys(tasks))
       => /\ response'.code = 404
          /\ response'.detail = "Task not found"
          /\ tasks' = tasks
          /\ workflows' = workflows]_vars

\* C14 witness: a completion of an unknown id has been refused while the
\* stores hold a workflow with a completed and a pending task.
C14_Witness ==
    /\ response.op = "complete_task"
    /\ response.code = 404
    /\ response.request.task_id \notin Keys(tasks)
    /\ workflows # <<>>
    /\ \E i \in 1..Len(tasks) : tasks[i].status = "completed"
    /\ \E i \in 1..Len(tasks) : tasks[i].status = "pending"

\* C15: the next_task of a successful create_workflow is not none and is
\* the first element of the list get_next_tasks returns in the state right
\* after the creation.
C15_NextTaskIsFirstEligible ==
    [][IsOk(response', "create_workflow")
       => /\ Len(workflow_templates[response'.request.workflow_type]) >= 1
          /\ response'.next_task # NoneDict
          /\ get_next_tasks(tasks') # <<>>
          /\ response'.next_task = get_next_tasks(tasks')[1]]_vars

\* C15 witness: a second workflow has been created while the first task of
\* the first workflow was still eligible: two tasks are eligible and
\* next_task is the one of the first workflow.
C15_Witness ==
    /\ IsOk(response, "create_workflow")
    /\ Len(workflows) = 2
    /\ Len(get_next_tasks(tasks)) = 2
    /\ response.next_task.id = workflows[1].task_ids[1]
    /\ response.workflow_id = workflows[2].id

\* a task as a reader may see it: completed with output and completed_at
\* set, or pending with output and completed_at unset and no artifacts
Untorn(task) ==
    /\ task.status \in {"pending", "completed"}
    /\ task.status = "completed"
          => task.output # None /\ task.completed_at # NoTime
    /\ task.status = "pending"
          => task.output = None /\ task.completed_at = NoTime
             /\ task.artifacts = <<>>

\* C16: whenever a reader can run (the event loop is between two handlers)
\* every stored task is untorn, the task a GET /tasks/{task_id} response
\* carries is untorn, and a complete_task that has returned left the store
\* and the clock as the four assignments taken as one step leave them.
C16_CompletionIsAtomicForReaders ==
    /\ LoopIdle => \A i \in 1..Len(tasks) : Untorn(tasks[i])
    /\ IsOk(response, "get_task") => Untorn(response.task)
    /\ (LoopIdle /\ running.atomic # EmptyDict)
          => /\ tasks = running.atomic.tasks
             /\ clock = running.atomic.clock
             /\ response.op = "complete_task" => response = running.atomic.response

\* C16 witness: a reader got a completed task, with its output, artifacts
\* and completed_at, right after a complete_task that ran through its four
\* assignments.
C16_Witness ==
    /\ LoopIdle
    /\ budget = MaxStepServed - 1
    /\ running.atomic # EmptyDict
    /\ IsOk(response, "get_task")
    /\ response.request.task_id = running.request.task_id
    /\ response.task.status = "completed"
    /\ response.task.output = "patched"
    /\ response.task.artifacts = <<"patch.diff">>
    /\ response.task.completed_at = Isoformat(clock)

\* the workflow id the metadata of a stored task names is absent or names
\* no stored workflow
NoKnownWorkflow(ts, wfs, task_id) ==
    MetadataWorkflowId(Get(ts, task_id)) \notin Keys(wfs)

\* C17: the Progress Aggregator returns the empty result for an absent
\* workflow id and for one that is not in the Workflow Store, and a
\* complete_task on a stored task whose metadata names no known workflow
\* answers 200 with task_completed, an empty workflow_progress, and the
\* task stored as completed.
C17_UnknownWorkflowProgressIsEmpty ==
    [][/\ calculate_workflow_progress(tasks, workflows, NoId) = EmptyDict
       /\ \A id \in (0..uuids) \ Keys(workflows) :
             calculate_workflow_progress(tasks, workflows, id) = EmptyDict
       /\ (/\ response'.op = "complete_task"
           /\ response'.request.task_id \in Keys(tasks)
           /\ NoKnownWorkflow(tasks, workflows, response'.request.task_id))
          => /\ response'.code = 200
             /\ response'.task_completed
             /\ response'.workflow_progress = EmptyDict
             /\ response'.completed_task.status = "completed"
             /\ Get(tasks', response'.request.task_id).status = "completed"
             /\ workflows' = workflows]_vars

\* C17 witness: the task without a known workflow has been completed after
\* a task of the stored workflow was, and the response carries no progress.
C17_Witness ==
    /\ IsOk(response, "complete_task")
    /\ budget = MaxOrphanServed - 1
    /\ NoKnownWorkflow(tasks, workflows, response.request.task_id)
    /\ response.workflow_progress = EmptyDict
    /\ Get(tasks, response.request.task_id).status = "completed"
    /\ workflows # <<>>
    /\ \E i \in 1..Len(tasks) :
          /\ tasks[i].status = "completed"
          /\ ~NoKnownWorkflow(tasks, workflows, tasks[i].id)

\* the fields of a task that complete_task does not assign, as the claim
\* lists them
FrameOf(task) ==
    <<task.id, task.description, task.agent, task.dependencies, task.priority,
      task.metadata, task.created_at, task.estimated_duration>>

\* C18: a successful complete_task(id) leaves the id, description, agent,
\* dependencies, priority, metadata, created_at and estimated_duration of
\* task id, every other task, the task ids and their order, and the whole
\* Workflow Store unchanged; status, output, artifacts and completed_at of
\* task id are what the request sets.
C18_CompleteChangesFourFields ==
    [][IsOk(response', "complete_task")
       => LET id == response'.request.task_id
          IN  /\ Len(tasks') = Len(tasks)
              /\ Keys(tasks') = Keys(tasks)
              /\ \A i \in 1..Len(tasks) :
                    IF tasks[i].id = id
                    THEN /\ FrameOf(tasks'[i]) = FrameOf(tasks[i])
                         /\ tasks'[i].status = "completed"
                         /\ tasks'[i].output = response'.request.output
                         /\ tasks'[i].artifacts
                              = ArtifactsOrEmpty(response'.request.artifacts)
                         /\ tasks'[i].completed_at = Isoformat(clock')
                    ELSE tasks'[i] = tasks[i]
              /\ workflows' = workflows]_vars

\* C18 witness: the third task of a chain, which depends on the second, has
\* been completed with artifacts while later tasks are pending.
C18_Witness ==
    /\ IsOk(response, "complete_task")
    /\ budget = MaxChainServed - 1
    /\ response.request.task_id = workflows[1].task_ids[3]
    /\ response.request.artifacts = <<"patch.diff">>
    /\ PrefixCompleted(tasks, workflows[1].task_ids, 3)
    /\ Get(tasks, workflows[1].task_ids[3]).dependencies
         = <<workflows[1].task_ids[2]>>
    /\ Get(tasks, workflows[1].task_ids[3]).artifacts = <<"patch.diff">>

\* C19: GET /tasks/next and the Progress Aggregator behind GET
\* /workflows/{id} leave the Task Store and the Workflow Store unchanged,
\* their result is the function of the current stores that get_next_tasks
\* and _calculate_workflow_progress compute, and the same request served
\* again with no other request between gets the same response.
C19_ReadsAreReadOnlyAndUncached ==
    [][/\ response'.op \in {"get_next_tasks", "get_workflow"}
          => /\ tasks' = tasks
             /\ workflows' = workflows
             /\ (response.op = response'.op /\ response.request = response'.request)
                   => response' = response
       /\ IsOk(response', "get_next_tasks")
          => response'.tasks = get_next_tasks(tasks)
       /\ IsOk(response', "get_workflow")
          => response'.progress
               = calculate_workflow_progress(tasks, workflows,
                                             response'.request.workflow_id)]_vars

\* C19 witness: after a completion GET /tasks/next has returned the one
\* eligible task of a chain whose first two tasks are completed, and the
\* stores still hold that state.
C19_Witness ==
    /\ IsOk(response, "get_next_tasks")
    /\ budget = MaxChainServed - 1
    /\ PrefixCompleted(tasks, workflows[1].task_ids, 2)
    /\ response.tasks = <<Get(tasks, workflows[1].task_ids[3])>>
    /\ calculate_workflow_progress(tasks, workflows, workflows[1].id).completed_tasks = 2

\* the ids a task reaches by following dependencies at most n times
RECURSIVE DependsOn(_, _, _)
DependsOn(ts, id, n) ==
    IF n = 0 \/ ~HasKey(ts, id) THEN {}
    ELSE LET direct == Range(Get(ts, id).dependencies)
         IN  direct \cup UNION {DependsOn(ts, d, n - 1) : d \in direct}

\* C20: no task depends on itself, directly or through other tasks; every
\* task has at most one dependency, and that is a task of the same workflow
\* stored before it.
C20_DependencyGraphAcyclic ==
    \A i \in 1..Len(tasks) :
        /\ tasks[i].id \notin DependsOn(tasks, tasks[i].id, Len(tasks))
        /\ Len(tasks[i].dependencies) <= 1
        /\ \A d \in Range(tasks[i].dependencies) :
              \E j \in 1..(i - 1) :
                  /\ tasks[j].id = d
                  /\ MetadataWorkflowId(tasks[j]) = MetadataWorkflowId(tasks[i])
                  /\ HasKey(workflows, MetadataWorkflowId(tasks[i]))

\* C20 witness: two workflows are stored and the last task of the second
\* reaches every earlier task of the second and none of the first.
C20_Witness ==
    /\ Len(workflows) = 2
    /\ LET last == tasks[Len(tasks)].id
           ids == workflows[2].task_ids
       IN  /\ last = ids[Len(ids)]
           /\ DependsOn(tasks, last, Len(tasks)) = Range(ids) \ {last}
           /\ DependsOn(tasks, last, Len(tasks)) \cap Range(workflows[1].task_ids) = {}

\* every completed task of ts has all of its dependencies completed
CompletedInOrder(ts) ==
    \A i \in 1..Len(ts) :
        ts[i].status = "completed" => AllDependenciesCompleted(ts, ts[i])

\* C21 as claimed: in every reachable state every completed task has all of
\* its dependencies completed, and complete_task has succeeded only on a
\* task that was eligible: a chain is never completed out of order.
C21_CompletedOnlyWhenEligible ==
    CompletedInOrder(tasks)

\* C21 amended: complete_task does not test eligibility; a request that is
\* not a complete_task on a task get_next_tasks would not return keeps
\* every completed task's dependencies completed, so a caller that only
\* completes tasks get_next_tasks returns never completes a chain out of
\* order.
C21_EligibleCompletionKeepsOrder ==
    [][(/\ CompletedInOrder(tasks)
        /\ IsOk(response', "complete_task")
              => response'.request.task_id \in EligibleIds(tasks))
       => /\ CompletedInOrder(tasks')
          /\ IsOk(response', "complete_task")
                => AllDependenciesCompleted(tasks', response'.completed_task)]_vars

\* C21 witness: the fourth task of a chain has been completed when it was
\* the eligible one, after the first three in order.
C21_Witness ==
    /\ IsOk(response, "complete_task")
    /\ budget = MaxChainServed - 1
    /\ response.request.task_id = workflows[1].task_ids[4]
    /\ response.completed_task.dependencies = <<workflows[1].task_ids[3]>>
    /\ PrefixCompleted(tasks, workflows[1].task_ids, 4)
    /\ CompletedInOrder(tasks)

\* C22: in every reachable state with a pending task get_next_tasks returns
\* a non-empty list, and every stored workflow with a member that is not
\* completed has a member among the tasks get_next_tasks returns.
C22_SchedulerNeverDeadlocks ==
    /\ (\E i \in 1..Len(tasks) : tasks[i].status = "pending")
          => get_next_tasks(tasks) # <<>>
    /\ \A w \in 1..Len(workflows) :
          CompletedMembers(tasks, workflows[w].task_ids)
                # 1..Len(workflows[w].task_ids)
          => EligibleIds(tasks) \cap Range(workflows[w].task_ids) # {}
    /\ IsOk(response, "get_next_tasks")
          => (response.tasks = <<>>
                <=> \A i \in 1..Len(tasks) : tasks[i].status = "completed")

\* C22 witness: a chain was completed out of order (its fifth task after
\* the first two), and the third task is still returned as eligible.
C22_Witness ==
    /\ IsOk(response, "get_next_tasks")
    /\ budget = MaxChainServed - 1
    /\ Len(workflows) = 1
    /\ CompletedMembers(tasks, workflows[1].task_ids) = {1, 2, 5}
    /\ IdsOf(response.tasks) = {workflows[1].task_ids[3]}

\* every stored workflow reports 100 percent and get_next_tasks returns
\* nothing
AllDone ==
    /\ \A w \in 1..Len(workflows) :
          IsHundred(calculate_workflow_progress(tasks, workflows, workflows[w].id)
                        .progress_percentage)
    /\ get_next_tasks(tasks) = <<>>

\* C23: with at most MaxCallerWorkflows create_workflow calls and callers
\* that keep asking for the next tasks and completing the first task of the
\* list they were given, eventually every workflow reports progress 100 and
\* the eligible list is empty, for good.
C23_EveryWorkflowCompletes == <>[]AllDone

\* C23 witness: a workflow is stored, a caller has just completed its last
\* task, it reports 100 percent, nothing is eligible, and more completions
\* have been served than there are tasks: the two callers were given the
\* same task at least once and both completed it.
C23_Witness ==
    /\ Len(workflows) >= 1
    /\ budget < CallerBudget - Len(workflows) - Len(tasks)
    /\ inflight = {}
    /\ IsOk(response, "complete_task")
    /\ response.next_tasks = <<>>
    /\ response.request.task_id = tasks[Len(tasks)].id
    /\ IsHundred(response.workflow_progress.progress_percentage)
    /\ AllDone

\* the eligible task that comes first in the order of the Task Store
FirstEligibleInStore(ts) ==
    LET i == CHOOSE k \in 1..Len(ts) :
                 /\ ts[k].id \in EligibleIds(ts)
                 /\ \A j \in 1..(k - 1) : ts[j].id \notin EligibleIds(ts)
    IN  ts[i]

\* C24 as stated: the next_task of a successful create_workflow is the first
\* task of the workflow that call created, whatever else is in the store.
C24_NextTaskIsNewWorkflowsFirst ==
    [][IsOk(response', "create_workflow")
       => /\ response'.next_task # NoneDict
          /\ response'.next_task.id = response'.task_ids[1]]_vars

\* C24 amended: the next_task of a successful create_workflow is the eligible
\* task that comes first in the store after the creation.  It is the first
\* task of the created workflow exactly when no task was eligible before the
\* call; otherwise it is the task get_next_tasks returned first before the
\* call, a task of an earlier workflow.
C24_NextTaskIsEarliestEligible ==
    [][IsOk(response', "create_workflow")
       => /\ response'.next_task # NoneDict
          /\ response'.next_task.id = FirstEligibleInStore(tasks').id
          /\ response'.task_ids[1] \in EligibleIds(tasks')
          /\ (response'.next_task.id = response'.task_ids[1])
                <=> (get_next_tasks(tasks) = <<>>)
          /\ get_next_tasks(tasks) # <<>>
                => /\ response'.next_task.id = get_next_tasks(tasks)[1].id
                   /\ response'.next_task.metadata.workflow_id # response'.workflow_id]_vars

\* C24 witness: the first two tasks of a workflow are completed and its
\* third is eligible when a second workflow is created: next_task is that
\* third task, not the first task of the workflow just created.
C24_Witness ==
    /\ IsOk(response, "create_workflow")
    /\ Len(workflows) = 2
    /\ response.workflow_id = workflows[2].id
    /\ PrefixCompleted(tasks, workflows[1].task_ids, 2)
    /\ response.next_task.id = workflows[1].task_ids[3]
    /\ response.next_task.id # response.task_ids[1]
    /\ response.task_ids[1] \in EligibleIds(tasks)

====
